---- MODULE Spec2Model ----
(***************************************************************************)
(* Model of apps/search-api/populate_embeddings.py: the module-level       *)
(* configuration check followed by main(), the batched enrichment loop.    *)
(*                                                                         *)
(* The store is a function from record identifiers to documents.  The      *)
(* embedding field of a document is one of                                 *)
(*    "absent"  the field does not exist                                   *)
(*    "null"    the field holds None                                       *)
(*    "empty"   the field holds []                                         *)
(*    "old"     a non-empty vector that was there before the run           *)
(*    "vA","vB" non-empty vectors returned by the provider                 *)
(* The two third-party clients are the environment: every outcome the      *)
(* script's control flow distinguishes (constructor raising, query         *)
(* raising, provider raising, a response that is None / short / long /     *)
(* holding empty vectors, the error handler itself raising) is a           *)
(* nondeterministic choice.  update_one on an open connection is modelled  *)
(* by its documented effect.                                               *)
(***************************************************************************)
EXTENDS Integers, Sequences, FiniteSets, TLC

\* Number of records in the collection (bound of the model).
MaxRecords == 4

\* BATCH_SIZE = 10 in the source; scaled down so that several batches,
\* a short last batch and an evenly divisible total all occur.
BATCH_SIZE == 2

\* .limit(1000) in the source; scaled down so that the collection can hold
\* more candidates than the cap.
LIMIT == 3

Ids == 1..MaxRecords

\* Values of the embedding field of a stored document.
InitialEmbeddings == {"absent", "null", "empty", "old"}

\* e.values of one element of response.embeddings: None, [] or a vector.
ResponseValues == {"null", "empty", "vA", "vB"}

\* os.getenv("LLM_API_KEY"): None, "" or a key.
ApiKeys == {"unset", "blank", "set"}

\* Exceptions the try block of the loop can end with.  An API error carries
\* a response whose json() either decodes or raises; a network error, an
\* IndexError and a TypeError carry no response attribute.
ProviderErrors == {"NetworkError", "APIError", "APIErrorBadBody"}

VARIABLES
    apiKey,              \* GEMINI_API_KEY
    pc,                  \* position of the script
    status,              \* process exit status, -1 while running
    error,               \* the exception or message the process ended with
    mongo_bound,         \* the name mongo_client is bound
    conn_open,           \* a MongoClient exists and close() was not called
    store,               \* the collection
    store0,              \* the collection as it was when the run began
    products_to_update,  \* the materialised candidate list
    total_products,      \* len(products_to_update), -1 before the query
    i,                   \* loop index of range(0, total_products, BATCH_SIZE)
    response,            \* the provider's response to the current batch
    exc,                 \* exception caught by the except clause
    updated_count,       \* the success counter
    summary,             \* the count printed by "Finished.", -1 if not printed
    queries,             \* number of find() calls issued
    calls,               \* sequence of product_ids lists sent to the provider
    pauses,              \* number of time.sleep(60) taken
    returned_nonempty,   \* positions of batches whose returned vector was non-empty
    writes               \* per record, number of update_one calls of this run

vars == << apiKey, pc, status, error, mongo_bound, conn_open, store, store0,
           products_to_update, total_products, i, response, exc,
           updated_count, summary, queries, calls, pauses,
           returned_nonempty, writes >>

----------------------------------------------------------------------------
\* Pure helpers

\* Line 81 without its test: every returned vector is persisted.
Truthy_NoTest(v) == TRUE

\* Python truthiness of a vector: [] and None are falsy.
Truthy(v) == v \notin {"empty", "null", "absent"}

\* Line 19 written as `is None`: an empty key passes.
KeyMissing_IsNone(k) == k = "unset"

\* `not GEMINI_API_KEY`: None and "" are both falsy.
KeyMissing(k) == k \in {"unset", "blank"}

\* lst[lo:hi] with 0-based lo, hi (Python slice, clipped at the end).
Slice(lst, lo, hi) ==
    LET top == IF hi < Len(lst) THEN hi ELSE Len(lst)
    IN  IF lo >= top THEN << >> ELSE SubSeq(lst, lo + 1, top)

\* The filter without its $size clause: empty sequences are not selected.
MatchesQuery_NoSize(doc) == doc.embedding \in {"absent", "null"}

\* The filter of the candidate query:
\*   $or [ {embedding: {$exists: false}}, {embedding: None}, {embedding: {$size: 0}} ]
\* ({embedding: None} matches a null field and a missing field.)
MatchesQuery(doc) ==
    \/ doc.embedding = "absent"
    \/ doc.embedding \in {"null", "absent"}
    \/ doc.embedding = "empty"

RECURSIVE FindFrom(_, _, _)
\* Cursor over the collection in natural (identifier) order, stopping at `lim`.
FindFrom(st, id, lim) ==
    IF id > MaxRecords \/ lim = 0 THEN << >>
    ELSE IF MatchesQuery(st[id])
         THEN << st[id] >> \o FindFrom(st, id + 1, lim - 1)
         ELSE FindFrom(st, id + 1, lim)

\* list(collection.find(query).limit(1000))
Find(st) == FindFrom(st, 1, LIMIT)

\* An update whose $set also rewrites the description.
UpdateOne_TouchesDescription(st, id, v) ==
    IF id \in DOMAIN st
    THEN [st EXCEPT ![id].embedding = v, ![id].description = 0]
    ELSE st

\* collection.update_one({"_id": id}, {"$set": {"embedding": v}})
UpdateOne(st, id, v) ==
    IF id \in DOMAIN st THEN [st EXCEPT ![id].embedding = v] ELSE st

\* The slice taken one short: products_to_update[k:k + BATCH_SIZE - 1]
BatchAt_OneShort(lst, k) == Slice(lst, k, k + BATCH_SIZE - 1)

\* The batch that starts at loop index k: products_to_update[k:k + BATCH_SIZE]
BatchAt(lst, k) == Slice(lst, k, k + BATCH_SIZE)

\* product_ids of a batch
ProductIds(batch) == [j \in 1..Len(batch) |-> batch[j]._id]

\* Line 86 left out: the counter never moves.
Increment_Forgotten(n) == n

\* The success counter after one successful update.
Increment(n) == n + 1

RECURSIVE PersistFrom(_, _, _, _, _, _)
\* for j, product_id in enumerate(product_ids): ... (positions are 1-based here)
\* Ends with exc = "IndexError" when embeddings_data has no element j.
PersistFrom(j, ids, emb, st, cnt, wr) ==
    IF j > Len(ids)
    THEN [store |-> st, updated_count |-> cnt, writes |-> wr, exc |-> "none"]
    ELSE IF j > Len(emb)
    THEN [store |-> st, updated_count |-> cnt, writes |-> wr, exc |-> "IndexError"]
    ELSE IF Truthy(emb[j])
    THEN PersistFrom(j + 1, ids, emb, UpdateOne(st, ids[j], emb[j]),
                     Increment(cnt), [wr EXCEPT ![ids[j]] = @ + 1])
    ELSE PersistFrom(j + 1, ids, emb, st, cnt, wr)

\* Responses the provider can return for a batch of n texts: embeddings is
\* None, or a list of 0..n+1 vectors.
Responses(n) ==
    { [is_none |-> TRUE, embeddings |-> << >>] } \cup
    { [is_none |-> FALSE, embeddings |-> e] :
        e \in UNION { [1..k -> ResponseValues] : k \in 0..(n + 1) } }

\* A vector with at least one component.
IsNonEmptyVector(v) == v \in {"old", "vA", "vB"}

\* Number of positions 1..n of a response that hold a non-empty vector.
NonEmptyPositions(r, n) ==
    IF r.is_none THEN 0
    ELSE Cardinality({ j \in 1..n : j <= Len(r.embeddings)
                                     /\ IsNonEmptyVector(r.embeddings[j]) })

Ceil(n, d) == (n + d - 1) \div d

RECURSIVE ConcatBatches(_, _)
\* The batches of range(k, len(lst), BATCH_SIZE), concatenated in loop order.
ConcatBatches(lst, k) ==
    IF k >= Len(lst) THEN << >>
    ELSE BatchAt(lst, k) \o ConcatBatches(lst, k + BATCH_SIZE)

----------------------------------------------------------------------------
\* Initial state: any collection of MaxRecords records, any API key setting.

Doc(id, e) == [_id |-> id, name |-> id, description |-> id + 100, embedding |-> e]

Init ==
    /\ apiKey \in ApiKeys
    /\ \E f \in [Ids -> InitialEmbeddings] :
          store = [id \in Ids |-> Doc(id, f[id])]
    /\ store0 = store
    /\ pc = "config"
    /\ status = -1
    /\ error = "none"
    /\ mongo_bound = FALSE
    /\ conn_open = FALSE
    /\ products_to_update = << >>
    /\ total_products = -1
    /\ i = 0
    /\ response = [is_none |-> TRUE, embeddings |-> << >>]
    /\ exc = "none"
    /\ updated_count = 0
    /\ summary = -1
    /\ queries = 0
    /\ calls = << >>
    /\ pauses = 0
    /\ returned_nonempty = 0
    /\ writes = [id \in Ids |-> 0]

\* The process ends with status s; an uncaught exception gives status 1.
Exit(s, e) ==
    /\ pc' = "exit"
    /\ status' = s
    /\ error' = e

\* mongo_client.close()
Close == conn_open' = FALSE

----------------------------------------------------------------------------
\* Actions

\* Lines 18-20: the key is missing, ValueError at import time.
ConfigMissingKey ==
    /\ pc = "config"
    /\ KeyMissing(apiKey)
    /\ Exit(1, "ValueError")
    /\ UNCHANGED << apiKey, mongo_bound, conn_open, store, store0,
                    products_to_update, total_products, i, response, exc,
                    updated_count, summary, queries, calls, pauses,
                    returned_nonempty, writes >>

\* Lines 18-23: the key is present, the provider client is built, main() starts.
ConfigOk ==
    /\ pc = "config"
    /\ ~KeyMissing(apiKey)
    /\ pc' = "connect"
    /\ UNCHANGED << apiKey, status, error, mongo_bound, conn_open, store, store0,
                    products_to_update, total_products, i, response, exc,
                    updated_count, summary, queries, calls, pauses,
                    returned_nonempty, writes >>

\* Lines 29-32: the client, database and collection handles are obtained.
ConnectOk ==
    /\ pc = "connect"
    /\ mongo_bound' = TRUE
    /\ conn_open' = TRUE
    /\ pc' = "query"
    /\ UNCHANGED << apiKey, status, error, store, store0,
                    products_to_update, total_products, i, response, exc,
                    updated_count, summary, queries, calls, pauses,
                    returned_nonempty, writes >>

\* Line 29 raises (e.g. an invalid URI): mongo_client is unbound, so line 35
\* raises UnboundLocalError inside the handler and the process dies with it.
ConnectFailsInConstructor ==
    /\ pc = "connect"
    /\ Exit(1, "UnboundLocalError")
    /\ UNCHANGED << apiKey, mongo_bound, conn_open, store, store0,
                    products_to_update, total_products, i, response, exc,
                    updated_count, summary, queries, calls, pauses,
                    returned_nonempty, writes >>

\* Line 30 or 31 raises (e.g. an invalid database or collection name) after
\* the client was built: lines 34-36 close it and exit with status 1.
ConnectFailsAfterConstructor ==
    /\ pc = "connect"
    /\ mongo_bound' = TRUE
    /\ Close
    /\ Exit(1, "ConnectError")
    /\ UNCHANGED << apiKey, store, store0,
                    products_to_update, total_products, i, response, exc,
                    updated_count, summary, queries, calls, pauses,
                    returned_nonempty, writes >>

\* Lines 46-48 and 55: the query returns and there are candidates.
QueryCandidates ==
    /\ pc = "query"
    /\ Find(store) /= << >>
    /\ queries' = queries + 1
    /\ products_to_update' = Find(store)
    /\ total_products' = Len(Find(store))
    /\ updated_count' = 0
    /\ i' = 0
    /\ pc' = "loop"
    /\ UNCHANGED << apiKey, status, error, mongo_bound, conn_open, store, store0,
                    response, exc, summary, calls, pauses,
                    returned_nonempty, writes >>

\* Lines 46-53: the query returns nothing; close and sys.exit(0).
QueryNoCandidates ==
    /\ pc = "query"
    /\ Find(store) = << >>
    /\ queries' = queries + 1
    /\ products_to_update' = << >>
    /\ total_products' = 0
    /\ Close
    /\ Exit(0, "NoCandidates")
    /\ UNCHANGED << apiKey, mongo_bound, store, store0, i, response, exc,
                    updated_count, summary, calls, pauses,
                    returned_nonempty, writes >>

\* Line 46 raises (the server is unreachable, the cursor fails): nothing
\* catches it, the process dies with the traceback.
QueryFails ==
    /\ pc = "query"
    /\ queries' = queries + 1
    /\ Exit(1, "QueryError")
    /\ UNCHANGED << apiKey, mongo_bound, conn_open, store, store0,
                    products_to_update, total_products, i, response, exc,
                    updated_count, summary, calls, pauses,
                    returned_nonempty, writes >>

\* Lines 56-75: the next batch is built and the provider call returns.
\* (The batch of a loop index below total_products is never empty, so the
\* `continue` of line 67 is never taken.)
EmbedReturns ==
    /\ pc = "loop"
    /\ i < total_products
    /\ LET batch == BatchAt(products_to_update, i) IN
         /\ calls' = Append(calls, ProductIds(batch))
         /\ \E r \in Responses(Len(batch)) :
              /\ response' = r
              /\ returned_nonempty' = returned_nonempty + NonEmptyPositions(r, Len(batch))
    /\ pc' = "persist"
    /\ UNCHANGED << apiKey, status, error, mongo_bound, conn_open, store, store0,
                    products_to_update, total_products, i, exc,
                    updated_count, summary, queries, pauses, writes >>

\* Lines 56-74 and 91: the provider call raises.
EmbedRaises ==
    /\ pc = "loop"
    /\ i < total_products
    /\ calls' = Append(calls, ProductIds(BatchAt(products_to_update, i)))
    /\ \E e \in ProviderErrors : exc' = e
    /\ pc' = "except"
    /\ UNCHANGED << apiKey, status, error, mongo_bound, conn_open, store, store0,
                    products_to_update, total_products, i, response,
                    updated_count, summary, queries, pauses,
                    returned_nonempty, writes >>

\* Lines 77-89: the response is unpacked and persisted position by position.
\* response.embeddings = None makes line 77 raise TypeError.
Persist ==
    /\ pc = "persist"
    /\ LET ids == ProductIds(BatchAt(products_to_update, i))
           res == IF response.is_none
                  THEN [store |-> store, updated_count |-> updated_count,
                        writes |-> writes, exc |-> "TypeError"]
                  ELSE PersistFrom(1, ids, response.embeddings, store,
                                   updated_count, writes)
       IN /\ store' = res.store
          /\ updated_count' = res.updated_count
          /\ writes' = res.writes
          /\ exc' = res.exc
          /\ pc' = IF res.exc = "none" THEN "sleep" ELSE "except"
    /\ UNCHANGED << apiKey, status, error, mongo_bound, conn_open, store0,
                    products_to_update, total_products, i, response,
                    summary, queries, calls, pauses, returned_nonempty >>

\* Lines 91-94: the handler prints and ends.
ExceptHandled ==
    /\ pc = "except"
    /\ exc /= "APIErrorBadBody"
    /\ exc' = "none"
    /\ pc' = "sleep"
    /\ UNCHANGED << apiKey, status, error, mongo_bound, conn_open, store, store0,
                    products_to_update, total_products, i, response,
                    updated_count, summary, queries, calls, pauses,
                    returned_nonempty, writes >>

\* Lines 93-94: e.response.json() raises inside the handler; nothing catches
\* it, the process dies with the traceback.
ExceptRaises ==
    /\ pc = "except"
    /\ exc = "APIErrorBadBody"
    /\ Exit(1, "HandlerError")
    /\ UNCHANGED << apiKey, mongo_bound, conn_open, store, store0,
                    products_to_update, total_products, i, response, exc,
                    updated_count, summary, queries, calls, pauses,
                    returned_nonempty, writes >>

\* Line 98 and the loop header: sleep, then advance to the next batch.
Sleep ==
    /\ pc = "sleep"
    /\ pauses' = pauses + 1
    /\ i' = i + BATCH_SIZE
    /\ pc' = "loop"
    /\ UNCHANGED << apiKey, status, error, mongo_bound, conn_open, store, store0,
                    products_to_update, total_products, response, exc,
                    updated_count, summary, queries, calls,
                    returned_nonempty, writes >>

\* Lines 100-101: the range is exhausted; print the summary, close, return.
Finish ==
    /\ pc = "loop"
    /\ i >= total_products
    /\ summary' = updated_count
    /\ Close
    /\ Exit(0, "Finished")
    /\ UNCHANGED << apiKey, mongo_bound, store, store0,
                    products_to_update, total_products, i, response, exc,
                    updated_count, queries, calls, pauses,
                    returned_nonempty, writes >>

Next ==
    \/ ConfigMissingKey
    \/ ConfigOk
    \/ ConnectOk
    \/ ConnectFailsInConstructor
    \/ ConnectFailsAfterConstructor
    \/ QueryCandidates
    \/ QueryNoCandidates
    \/ QueryFails
    \/ EmbedReturns
    \/ EmbedRaises
    \/ Persist
    \/ ExceptHandled
    \/ ExceptRaises
    \/ Sleep
    \/ Finish

Spec == Init /\ [][Next]_vars

----------------------------------------------------------------------------
\* Vocabulary of the properties

\* A record is a candidate iff its embedding is absent, null or empty.
IsCandidate(doc) == doc.embedding \in {"absent", "null", "empty"}

\* The candidates of the collection as the run found it.
Candidates0 == { id \in Ids : IsCandidate(store0[id]) }

\* The identifiers the selection step returned.
Selected == { products_to_update[j]._id : j \in 1..Len(products_to_update) }

\* The selection step has returned.
Queried == total_products >= 0

\* The batch the loop is working on.
CurrentIds == ProductIds(BatchAt(products_to_update, i))

\* Number of provider requests that include record id.
RequestsWith(id) ==
    Cardinality({ k \in 1..Len(calls) : \E j \in 1..Len(calls[k]) : calls[k][j] = id })

\* Positions of the current batch for which the response holds a vector.
ReturnedPositions ==
    { j \in 1..Len(CurrentIds) : ~response.is_none /\ j <= Len(response.embeddings) }

----------------------------------------------------------------------------
\* C1: whenever the try block of a batch ended in the except clause (the
\* provider raised, or its response was malformed), no record of that batch
\* has a modified embedding, and the process does not end with that
\* exception pending: the run goes on to the next batch.
C1_FailedBatchUntouchedRunGoesOn ==
    /\ pc = "except" =>
          \A j \in 1..Len(CurrentIds) :
             store[CurrentIds[j]].embedding = store0[CurrentIds[j]].embedding
    /\ pc = "exit" => exc = "none"

\* C2: when the process has ended, a store connection that was opened has
\* been closed, and a connection failure at startup ended it with a
\* non-zero status.
C2_ConnectionReleasedOnEveryExit ==
    pc = "exit" =>
       /\ ~conn_open
       /\ error \in {"UnboundLocalError", "ConnectError"} => status > 0

\* C3: with the API key absent (unset or blank), the run ends with a
\* non-zero status and a configuration error, and no store connection is
\* opened, no store query issued and no provider call made.
C3_MissingKeyFailsBeforeIO ==
    apiKey /= "set" =>
       /\ pc \in {"config", "exit"}
       /\ ~mongo_bound /\ ~conn_open
       /\ queries = 0
       /\ calls = << >>
       /\ store = store0
       /\ pc = "exit" => (status = 1 /\ error = "ValueError")

\* The process has ended on a blank key.
C3_Witness ==
    /\ pc = "exit"
    /\ apiKey = "blank"
    /\ status = 1
    /\ error = "ValueError"

C6_OneCallOnePausePerBatch ==
    /\ pc = "loop" => Len(calls) = pauses
    /\ pc \in {"persist", "except", "sleep"} => Len(calls) = pauses + 1
    /\ (pc = "exit" /\ Queried) =>
          /\ Len(calls) = Ceil(total_products, BATCH_SIZE)
          /\ pauses = Ceil(total_products, BATCH_SIZE)
          /\ total_products = 0 => (status = 0 /\ calls = << >>)

\* C7: the batches of the loop, concatenated in loop order, are the
\* candidate list; every batch has BATCH_SIZE records except possibly the
\* last, which has total mod BATCH_SIZE (or BATCH_SIZE when that is 0); and
\* the k-th provider request carries the k-th batch.
C7_BatchingPartitionsCandidates ==
    Queried =>
       /\ ConcatBatches(products_to_update, 0) = products_to_update
       /\ \A k \in 0..(Ceil(total_products, BATCH_SIZE) - 1) :
             Len(BatchAt(products_to_update, k * BATCH_SIZE)) =
                IF k < Ceil(total_products, BATCH_SIZE) - 1 THEN BATCH_SIZE
                ELSE IF total_products % BATCH_SIZE = 0 THEN BATCH_SIZE
                ELSE total_products % BATCH_SIZE
       /\ \A k \in 1..Len(calls) :
             calls[k] = [j \in 1..Len(calls[k]) |->
                            products_to_update[(k - 1) * BATCH_SIZE + j]._id]
       /\ \A k \in 1..Len(calls) :
             Len(calls[k]) = IF k * BATCH_SIZE <= total_products THEN BATCH_SIZE
                             ELSE total_products % BATCH_SIZE

\* A completed run whose batches were a full one and a short last one.
C7_Witness ==
    /\ pc = "exit"
    /\ error = "Finished"
    /\ total_products = 3
    /\ Len(calls) = 2
    /\ Len(calls[1]) = 2
    /\ Len(calls[2]) = 1

\* C8 as stated: the selection holds every candidate, no record with a
\* non-empty embedding, and at most LIMIT records.
C8_SelectionIsEveryCandidate ==
    Queried =>
       /\ Candidates0 \subseteq Selected
       /\ Selected \subseteq Candidates0
       /\ total_products <= LIMIT

\* C8 as amended: the selection holds only candidates, each once, at most
\* LIMIT of them; it holds every candidate when there are at most LIMIT,
\* and exactly LIMIT of them otherwise.
C8_SelectionIsCandidatesUpToLimit ==
    Queried =>
       /\ Selected \subseteq Candidates0
       /\ Cardinality(Selected) = total_products
       /\ total_products <= LIMIT
       /\ Cardinality(Candidates0) <= LIMIT => Selected = Candidates0
       /\ Cardinality(Candidates0) > LIMIT => total_products = LIMIT

\* The collection held more candidates than the cap, and the selection
\* stopped at the cap.
C8_Witness ==
    /\ Queried
    /\ Cardinality(Candidates0) > LIMIT
    /\ total_products = LIMIT

\* C9: the run creates and deletes no record, changes no field other than
\* embedding, and changes no record that was not selected.
C9_OnlyEmbeddingOfSelectedChanges ==
    /\ DOMAIN store = DOMAIN store0
    /\ \A id \in Ids :
          /\ store[id] = [store0[id] EXCEPT !.embedding = store[id].embedding]
          /\ id \notin Selected => store[id] = store0[id]

\* A selected record was updated while another record was not selected.
C9_Witness ==
    /\ \E id \in Selected : store[id].embedding /= store0[id].embedding
    /\ \E id \in Ids : id \notin Selected /\ store[id].embedding = "old"

\* C10: when a run that selected candidates has ended, every selected
\* record was in exactly one provider request and was written at most
\* once; a selected record the run did not update is still a candidate,
\* and a record the run updated is not.
C10_NoRetriesWithinRun ==
    (pc = "exit" /\ Queried) =>
       \A id \in Selected :
          /\ RequestsWith(id) = 1
          /\ writes[id] <= 1
          /\ writes[id] = 0 => IsCandidate(store[id])
          /\ writes[id] > 0 => ~IsCandidate(store[id])

====
